---- MODULE Spec2Model ----
(***************************************************************************)
(* SoftDev-Solutions: the user-record store (UserRepository) and the       *)
(* registration handler (POST /register) layered on it.                    *)
(*                                                                         *)
(* Strings are sequences of one-character strings, so that toLowerCase()   *)
(* and trim() are computed and not assumed.  A nullable column holds NULL. *)
(* Every store call is one SQL statement and is one atomic step; requests  *)
(* are served concurrently by the hosting runtime, so statements of other  *)
(* requests and of direct repository callers may run between two store     *)
(* calls of one request.                                                   *)
(***************************************************************************)
EXTENDS Integers, Sequences, FiniteSets, TLC

VARIABLES rows, nextId, now, last, req, emailConfigured, val, contact,
          probe, db

\* the record store with the registration handler, and the rest
storeVars == <<rows, nextId, now, last, req, emailConfigured>>
mailVars == <<val, contact, probe, db>>
notVal == <<storeVars, contact, probe, db>>
notDb == <<storeVars, val, contact, probe>>

vars == <<storeVars, mailVars>>

(* ------------------------------ bounds --------------------------------- *)
MaxTime == 1
MaxId == 2
MaxPools == 2
MaxLoops == 2
MaxFaultyTests == 1

(* ------------------------------ strings -------------------------------- *)
Whitespace == {" "}

ToLowerChar(c) == CASE c = "A" -> "a" [] c = "B" -> "b" [] OTHER -> c

RECURSIVE ToLowerCase(_)
ToLowerCase(s) ==
  IF s = <<>> THEN <<>> ELSE <<ToLowerChar(Head(s))>> \o ToLowerCase(Tail(s))

RECURSIVE TrimStart(_)
TrimStart(s) ==
  IF s # <<>> /\ Head(s) \in Whitespace THEN TrimStart(Tail(s)) ELSE s

RECURSIVE TrimEnd(_)
TrimEnd(s) ==
  IF s # <<>> /\ s[Len(s)] \in Whitespace
  THEN TrimEnd(SubSeq(s, 1, Len(s) - 1)) ELSE s

Trim(s) == TrimEnd(TrimStart(s))

\* a JavaScript string is truthy iff it is not empty
Truthy(s) == s # <<>>

Has(data, f) == f \in DOMAIN data

EmptyString == <<>>
NULL == "NULL"
NullTime == -1

(* ------------------------------ inputs --------------------------------- *)
sA == <<"a">>
sB == <<"b">>
eLower == <<"a", "@", "b", ".", "a">>
eUpper == <<"A", "@", "b", ".", "a">>
ePadded == <<" ", "a", "@", "b", ".", "a", " ">>
eOther == <<"b", "@", "b", ".", "a">>

EmailInputs == {eLower, eUpper, ePadded, eOther}

NoData == [f \in {} |-> EmptyString]

\* payloads of a direct createUser call
CreateInputs ==
  {[firstName |-> sA, lastName |-> sA, email |-> e, company |-> sA,
    phone |-> sA] : e \in EmailInputs}
  \cup {[firstName |-> sA, lastName |-> sA, email |-> eOther, company |-> sA,
         phone |-> sA, message |-> sB]}

\* payloads of updateUser: any subset of the fields, some of them empty
UpdateInputs ==
  {NoData,
   [firstName |-> sB],
   [firstName |-> EmptyString],
   [message |-> EmptyString],
   [email |-> eUpper],
   [email |-> eOther, lastName |-> EmptyString]}

Ids == 1..(MaxId + 1)

(* ------------------------------ the store ------------------------------ *)
\* userData.email.toLowerCase().trim()
NormalizeEmail(email) == Trim(ToLowerCase(email))

GetUserById(rs, id) == {u \in rs : u.id = id}

\* a lookup that forgets to normalise its argument
GetUserByEmail_raw(rs, email) == {u \in rs : u.email = email}

GetUserByEmail(rs, email) == {u \in rs : u.email = NormalizeEmail(email)}

GetUserCount(rs) == Cardinality(rs)

\* an INSERT that stores the email as given
NewRow_rawEmail(id, t, userData) ==
  [id |-> id,
   first_name |-> userData.firstName,
   last_name |-> userData.lastName,
   email |-> userData.email,
   company |-> userData.company,
   phone |-> userData.phone,
   message |-> IF Has(userData, "message") /\ Truthy(userData.message)
               THEN userData.message ELSE EmptyString,
   email_sent |-> FALSE,
   email_sent_at |-> NullTime,
   email_message_id |-> NULL,
   admin_notification_sent |-> FALSE,
   admin_notification_sent_at |-> NullTime,
   admin_notification_message_id |-> NULL,
   created_at |-> t,
   updated_at |-> t]

\* the row an INSERT builds: column defaults of the users table
NewRow(id, t, userData) ==
  [id |-> id,
   first_name |-> userData.firstName,
   last_name |-> userData.lastName,
   email |-> NormalizeEmail(userData.email),
   company |-> userData.company,
   phone |-> userData.phone,
   message |-> IF Has(userData, "message") /\ Truthy(userData.message)
               THEN userData.message ELSE EmptyString,
   email_sent |-> FALSE,
   email_sent_at |-> NullTime,
   email_message_id |-> NULL,
   admin_notification_sent |-> FALSE,
   admin_notification_sent_at |-> NullTime,
   admin_notification_message_id |-> NULL,
   created_at |-> t,
   updated_at |-> t]

\* INSERT ... RETURNING *; the UNIQUE constraint on email rejects a duplicate
CreateUser(rs, id, t, userData) ==
  LET row == NewRow(id, t, userData)
  IN IF \E u \in rs : u.email = row.email
     THEN [rows |-> rs, ret |-> {}, err |-> "UNIQUE"]
     ELSE [rows |-> rs \cup {row}, ret |-> {row}, err |-> "NONE"]

\* a SET list that tests message for truthiness like the other fields
UpdateFields_truthyMessage(userData) ==
  {f \in {"firstName", "lastName", "email", "company", "phone", "message"} :
     Has(userData, f) /\ Truthy(userData[f])}

\* the SET list updateUser builds
UpdateFields(userData) ==
  {f \in {"firstName", "lastName", "email", "company", "phone"} :
     Has(userData, f) /\ Truthy(userData[f])}
  \cup {f \in {"message"} : Has(userData, f)}

\* an UPDATE that stores the email as given
UpdatedRow_rawEmail(old, t, userData) ==
  LET fields == UpdateFields(userData)
  IN [old EXCEPT
        !.first_name = IF "firstName" \in fields THEN userData.firstName ELSE @,
        !.last_name = IF "lastName" \in fields THEN userData.lastName ELSE @,
        !.email = IF "email" \in fields THEN userData.email ELSE @,
        !.company = IF "company" \in fields THEN userData.company ELSE @,
        !.phone = IF "phone" \in fields THEN userData.phone ELSE @,
        !.message = IF "message" \in fields THEN userData.message ELSE @,
        !.updated_at = t]

\* an UPDATE that puts the welcome status back to its default when the
\* email changes
UpdatedRow_resetsFlags(old, t, userData) ==
  LET fields == UpdateFields(userData)
  IN [old EXCEPT
        !.first_name = IF "firstName" \in fields THEN userData.firstName ELSE @,
        !.last_name = IF "lastName" \in fields THEN userData.lastName ELSE @,
        !.email = IF "email" \in fields
                  THEN NormalizeEmail(userData.email) ELSE @,
        !.company = IF "company" \in fields THEN userData.company ELSE @,
        !.phone = IF "phone" \in fields THEN userData.phone ELSE @,
        !.message = IF "message" \in fields THEN userData.message ELSE @,
        !.email_sent = IF "email" \in fields THEN FALSE ELSE @,
        !.updated_at = t]

UpdatedRow(old, t, userData) ==
  LET fields == UpdateFields(userData)
  IN [old EXCEPT
        !.first_name = IF "firstName" \in fields THEN userData.firstName ELSE @,
        !.last_name = IF "lastName" \in fields THEN userData.lastName ELSE @,
        !.email = IF "email" \in fields
                  THEN NormalizeEmail(userData.email) ELSE @,
        !.company = IF "company" \in fields THEN userData.company ELSE @,
        !.phone = IF "phone" \in fields THEN userData.phone ELSE @,
        !.message = IF "message" \in fields THEN userData.message ELSE @,
        !.updated_at = t]

\* an updateUser without the early return for an empty SET list
UpdateUser_alwaysWrites(rs, t, id, userData) ==
  IF GetUserById(rs, id) = {}
  THEN [rows |-> rs, ret |-> {}, err |-> "NONE"]
  ELSE LET old == CHOOSE u \in rs : u.id = id
           new == UpdatedRow(old, t, userData)
       IN IF \E u \in rs \ {old} : u.email = new.email
          THEN [rows |-> rs, ret |-> {}, err |-> "UNIQUE"]
          ELSE [rows |-> (rs \ {old}) \cup {new}, ret |-> {new},
                err |-> "NONE"]

UpdateUser(rs, t, id, userData) ==
  IF UpdateFields(userData) = {}
  THEN [rows |-> rs, ret |-> GetUserById(rs, id), err |-> "NONE"]
  ELSE IF GetUserById(rs, id) = {}
  THEN [rows |-> rs, ret |-> {}, err |-> "NONE"]
  ELSE LET old == CHOOSE u \in rs : u.id = id
           new == UpdatedRow(old, t, userData)
       IN IF \E u \in rs \ {old} : u.email = new.email
          THEN [rows |-> rs, ret |-> {}, err |-> "UNIQUE"]
          ELSE [rows |-> (rs \ {old}) \cup {new}, ret |-> {new},
                err |-> "NONE"]

\* a deleteUser that reports success whatever rowCount says
DeleteUser_alwaysTrue(rs, id) ==
  [rows |-> {u \in rs : u.id # id}, ret |-> TRUE]

\* DELETE FROM users WHERE id = $1; (result.rowCount || 0) > 0
DeleteUser(rs, id) ==
  [rows |-> {u \in rs : u.id # id}, ret |-> \E u \in rs : u.id = id]

(* --------------------------- email service ---------------------------- *)
MessageIds == {"m1", "m2"}

\* what transporter.sendMail does: accepts the mail and returns info with a
\* messageId (or without one), or rejects; "threw" is a send call that
\* itself rejects instead of returning a result
SmtpOutcomes ==
  {[kind |-> "sent", messageId |-> m] : m \in MessageIds \cup {NULL}}
  \cup {[kind |-> "rejected", messageId |-> NULL],
        [kind |-> "threw", messageId |-> NULL]}

ErrNotConfigured == "Email service not configured"
ErrSmtp == "smtp error"
NoSend == [success |-> FALSE, messageId |-> NULL, error |-> NULL,
           threw |-> FALSE]

\* sendWelcomeEmail / sendAdminNotification: {success, messageId?, error?}
SendEmail(configured, outcome) ==
  IF outcome.kind = "threw"
  THEN [success |-> FALSE, messageId |-> NULL, error |-> NULL, threw |-> TRUE]
  ELSE IF ~configured
  THEN [success |-> FALSE, messageId |-> NULL, error |-> ErrNotConfigured,
        threw |-> FALSE]
  ELSE IF outcome.kind = "sent"
  THEN [success |-> TRUE, messageId |-> outcome.messageId, error |-> NULL,
        threw |-> FALSE]
  ELSE [success |-> FALSE, messageId |-> NULL, error |-> ErrSmtp,
        threw |-> FALSE]

\* the test inverted
SentWithId_inverted(result) == ~result.threw /\ ~result.success

\* emailResult.success && emailResult.messageId
SentWithId(result) ==
  ~result.threw /\ result.success /\ result.messageId # NULL

UpdateEmailSentStatus(rs, t, id, messageId) ==
  {IF u.id = id
   THEN [u EXCEPT !.email_sent = TRUE, !.email_sent_at = t,
                  !.email_message_id = messageId, !.updated_at = t]
   ELSE u : u \in rs}

UpdateAdminNotificationSentStatus(rs, t, id, messageId) ==
  {IF u.id = id
   THEN [u EXCEPT !.admin_notification_sent = TRUE,
                  !.admin_notification_sent_at = t,
                  !.admin_notification_message_id = messageId,
                  !.updated_at = t]
   ELSE u : u \in rs}

(* ------------------------ registration handler ------------------------ *)
Requests == {"r1", "r2"}
Repo == "repo"

ErrRequired == "All required fields must be provided"
ErrEmailFormat == "Please provide a valid email address"
ErrDuplicate == "An account with this email already exists"
ErrInternal == "Internal server error. Please try again later."

RequiredFields == {"firstName", "lastName", "email", "company", "phone"}

\* /^[^\s@]+@[^\s@]+\.[^\s@]+$/
EmailRegexTest(s) ==
  /\ \A i \in 1..Len(s) : s[i] \notin Whitespace
  /\ Cardinality({i \in 1..Len(s) : s[i] = "@"}) = 1
  /\ \E i \in 1..Len(s), j \in 1..Len(s) :
       /\ s[i] = "@"
       /\ s[j] = "."
       /\ 1 < i
       /\ i + 1 < j
       /\ j < Len(s)

RegisterInputs ==
  {[firstName |-> sA, lastName |-> sA, email |-> eLower, company |-> sA,
    phone |-> sA],
   [firstName |-> <<"a", " ">>, lastName |-> sA, email |-> eUpper,
    company |-> sA, phone |-> sA, message |-> <<" ", "b">>],
   [firstName |-> sA, lastName |-> sA, email |-> ePadded, company |-> sA,
    phone |-> sA],
   [lastName |-> sA, email |-> eLower, company |-> sA, phone |-> sA]}

\* a presence check that forgets the phone
MissingRequired_noPhone(body) ==
  \E f \in RequiredFields \ {"phone"} : ~Has(body, f) \/ ~Truthy(body[f])

\* !firstName || !lastName || !email || !company || !phone
MissingRequired(body) ==
  \E f \in RequiredFields : ~Has(body, f) \/ ~Truthy(body[f])

\* the CreateUserData the handler builds from the body
UserDataOf(body) ==
  [firstName |-> Trim(body.firstName),
   lastName |-> Trim(body.lastName),
   email |-> Trim(ToLowerCase(body.email)),
   company |-> Trim(body.company),
   phone |-> Trim(body.phone),
   message |-> IF Has(body, "message") /\ Truthy(Trim(body.message))
               THEN Trim(body.message) ELSE EmptyString]

\* the user object of the success response
Projection(u) ==
  [id |-> u.id, firstName |-> u.first_name, lastName |-> u.last_name,
   email |-> u.email, company |-> u.company, createdAt |-> u.created_at]

IdleRequest ==
  [pc |-> "idle", body |-> NoData, newUser |-> {}, status |-> 0,
   error |-> NULL, user |-> {}, insertErr |-> "NONE", countFailed |-> FALSE,
   configured |-> FALSE, welcome |-> NoSend, welcomeAttempts |-> 0,
   admin |-> NoSend, adminAttempts |-> 0,
   n0 |-> 0, fresh |-> FALSE, after |-> {}, touched |-> {}]

\* bookkeeping: which callers have written to the store since a request
\* was received
Touch(rq, actor) ==
  [r \in Requests |->
     IF rq[r].pc # "idle" THEN [rq[r] EXCEPT !.touched = @ \cup {actor}]
     ELSE rq[r]]

Respond(r, status, error, user) ==
  [req[r] EXCEPT !.pc = "done", !.status = status, !.error = error,
                 !.user = user]

\* lines 384-404: the body arrives and is validated
Receive(r, body) ==
  /\ req[r].pc = "idle"
  /\ LET rcv == [req[r] EXCEPT
                   !.body = body,
                   !.n0 = GetUserCount(rows),
                   !.fresh = Has(body, "email")
                             /\ GetUserByEmail(rows, body.email) = {},
                   !.after = {q \in Requests : req[q].pc = "done"}]
     IN req' = [req EXCEPT ![r] =
          IF MissingRequired(body)
          THEN [rcv EXCEPT !.pc = "done", !.status = 400,
                           !.error = ErrRequired]
          ELSE IF ~EmailRegexTest(body.email)
          THEN [rcv EXCEPT !.pc = "done", !.status = 400,
                           !.error = ErrEmailFormat]
          ELSE [rcv EXCEPT !.pc = "checking"]]
  /\ UNCHANGED mailVars
  /\ UNCHANGED <<rows, nextId, now, last, emailConfigured>>

\* a duplicate lookup whose result is ignored
CheckDuplicate_ignored(r) ==
  /\ req[r].pc = "checking"
  /\ req' = [req EXCEPT ![r] = [req[r] EXCEPT !.pc = "persisting"]]
  /\ UNCHANGED mailVars
  /\ UNCHANGED <<rows, nextId, now, last, emailConfigured>>

\* lines 406-414: the duplicate lookup
CheckDuplicate(r) ==
  /\ req[r].pc = "checking"
  /\ req' = [req EXCEPT ![r] =
       IF GetUserByEmail(rows, req[r].body.email) # {}
       THEN Respond(r, 409, ErrDuplicate, {})
       ELSE [req[r] EXCEPT !.pc = "persisting"]]
  /\ UNCHANGED mailVars
  /\ UNCHANGED <<rows, nextId, now, last, emailConfigured>>

\* lines 416-446: the insert, the registration count for the log line, and
\* the call of sendWelcomeEmail; an exception ends in the catch of 510-520
Persist(r, countFails) ==
  /\ req[r].pc = "persisting"
  /\ nextId <= MaxId
  /\ LET c == CreateUser(rows, nextId, now, UserDataOf(req[r].body))
     IN /\ rows' = c.rows
        /\ req' =
             IF c.err # "NONE"
             THEN [req EXCEPT ![r] =
                     [Respond(r, 500, ErrInternal, {}) EXCEPT
                        !.insertErr = c.err]]
             ELSE IF countFails
             THEN [Touch(req, r) EXCEPT ![r] =
                     [Respond(r, 500, ErrInternal, {}) EXCEPT
                        !.newUser = c.ret, !.countFailed = TRUE]]
             ELSE [Touch(req, r) EXCEPT ![r] =
                     [req[r] EXCEPT
                        !.pc = "welcome", !.newUser = c.ret,
                        !.configured = emailConfigured,
                        !.welcomeAttempts = @ + 1]]
  /\ nextId' = nextId + 1
  /\ UNCHANGED mailVars
  /\ UNCHANGED <<now, last, emailConfigured>>

NewUserOf(r) == CHOOSE u \in req[r].newUser : TRUE

\* a welcome-email failure that ends the request with an error
AfterWelcome_fatal(rq, result, configured) ==
  IF result.threw \/ ~result.success
  THEN [rq EXCEPT !.pc = "done", !.status = 500, !.error = ErrInternal,
                  !.welcome = result]
  ELSE [rq EXCEPT !.pc = "admin", !.welcome = result,
                  !.configured = configured, !.adminAttempts = @ + 1]

\* lines 444-470: how the handler goes on after the welcome-email step:
\* success, failure and exception all lead to the admin notification
AfterWelcome(rq, result, configured) ==
  [rq EXCEPT !.pc = "admin", !.welcome = result,
             !.configured = configured, !.adminAttempts = @ + 1]

\* an admin-notification failure that turns the response into an error
AfterAdmin_fatal(rq, result) ==
  IF result.threw \/ ~result.success
  THEN [rq EXCEPT !.pc = "done", !.status = 500, !.error = ErrInternal,
                  !.admin = result]
  ELSE [rq EXCEPT !.pc = "done", !.status = 200, !.error = NULL,
                  !.user = {Projection(u) : u \in rq.newUser},
                  !.admin = result]

\* lines 468-508: how the handler ends after the admin-notification step:
\* the success response with the projection of the created user
AfterAdmin(rq, result) ==
  [rq EXCEPT !.pc = "done", !.status = 200, !.error = NULL,
             !.user = {Projection(u) : u \in rq.newUser},
             !.admin = result]

\* sendWelcomeEmail settles, the status is recorded, and
\* sendAdminNotification is called
WelcomeDone(r, outcome) ==
  /\ req[r].pc = "welcome"
  /\ LET result == SendEmail(req[r].configured, outcome)
         written == SentWithId(result)
         rq == IF written THEN Touch(req, r) ELSE req
     IN /\ rows' = IF written
                   THEN UpdateEmailSentStatus(rows, now, NewUserOf(r).id,
                                              result.messageId)
                   ELSE rows
        /\ req' = [rq EXCEPT ![r] = AfterWelcome(rq[r], result,
                                                 emailConfigured)]
  /\ UNCHANGED mailVars
  /\ UNCHANGED <<nextId, now, last, emailConfigured>>

\* sendAdminNotification settles, the status is recorded, and the
\* response is produced
AdminDone(r, outcome) ==
  /\ req[r].pc = "admin"
  /\ LET result == SendEmail(req[r].configured, outcome)
         written == SentWithId(result)
         rq == IF written THEN Touch(req, r) ELSE req
     IN /\ rows' = IF written
                   THEN UpdateAdminNotificationSentStatus(
                          rows, now, NewUserOf(r).id, result.messageId)
                   ELSE rows
        /\ req' = [rq EXCEPT ![r] = AfterAdmin(rq[r], result)]
  /\ UNCHANGED mailVars
  /\ UNCHANGED <<nextId, now, last, emailConfigured>>

\* createTestAccount resolves: the test transport is ready
TestAccountCreated ==
  /\ ~emailConfigured
  /\ emailConfigured' = TRUE
  /\ UNCHANGED mailVars
  /\ UNCHANGED <<rows, nextId, now, last, req>>

(* ------------------- direct calls of the repository -------------------- *)
NoCall == [op |-> "none", id |-> 0, data |-> NoData, ret |-> {},
           ok |-> FALSE, err |-> "NONE"]

ReqAfterWrite == IF rows' # rows THEN Touch(req, Repo) ELSE req

RepoCreate(userData) ==
  /\ nextId <= MaxId
  /\ LET r == CreateUser(rows, nextId, now, userData)
     IN /\ rows' = r.rows
        /\ last' = [op |-> "create", id |-> nextId, data |-> userData,
                    ret |-> r.ret, ok |-> r.err = "NONE", err |-> r.err]
  /\ nextId' = nextId + 1
  /\ req' = ReqAfterWrite
  /\ UNCHANGED mailVars
  /\ UNCHANGED <<now, emailConfigured>>

RepoUpdate(id, userData) ==
  /\ LET r == UpdateUser(rows, now, id, userData)
     IN /\ rows' = r.rows
        /\ last' = [op |-> "update", id |-> id, data |-> userData,
                    ret |-> r.ret, ok |-> r.err = "NONE", err |-> r.err]
  /\ req' = ReqAfterWrite
  /\ UNCHANGED mailVars
  /\ UNCHANGED <<nextId, now, emailConfigured>>

RepoDelete(id) ==
  /\ LET r == DeleteUser(rows, id)
     IN /\ rows' = r.rows
        /\ last' = [op |-> "delete", id |-> id, data |-> NoData,
                    ret |-> {}, ok |-> r.ret, err |-> "NONE"]
  /\ req' = ReqAfterWrite
  /\ UNCHANGED mailVars
  /\ UNCHANGED <<nextId, now, emailConfigured>>

\* CURRENT_TIMESTAMP advances
Tick ==
  /\ now < MaxTime
  /\ now' = now + 1
  /\ UNCHANGED mailVars
  /\ UNCHANGED <<rows, nextId, last, req, emailConfigured>>

Create == \E userData \in CreateInputs : RepoCreate(userData)
Update == \E id \in Ids, userData \in UpdateInputs : RepoUpdate(id, userData)
Delete == \E id \in Ids : RepoDelete(id)

\* DELETE /register?id=<id>: deleteUser on behalf of an admin
DeleteRequest(id) ==
  /\ rows' = DeleteUser(rows, id).rows
  /\ req' = ReqAfterWrite
  /\ UNCHANGED mailVars
  /\ UNCHANGED <<nextId, now, last, emailConfigured>>

Remove == \E id \in Ids : DeleteRequest(id)

ReceiveRequest == \E r \in Requests, body \in RegisterInputs : Receive(r, body)
Lookup == \E r \in Requests : CheckDuplicate(r)
Insert == \E r \in Requests, countFails \in BOOLEAN : Persist(r, countFails)
Welcome == \E r \in Requests, outcome \in SmtpOutcomes : WelcomeDone(r, outcome)
Notify == \E r \in Requests, outcome \in SmtpOutcomes : AdminDone(r, outcome)

(* --------------------------- EmailValidator ---------------------------- *)
\* what a DNS lookup of one record type does: resolves to one or more
\* records, resolves to an empty list, or rejects
DnsOutcomes == {"records", "empty", "fail"}
LookupTypes == {"MX", "A", "AAAA"}
DnsStates == [LookupTypes -> DnsOutcomes]

eUpperDomain == <<"a", "@", "B", ".", "a">>
eNoAt == <<"a", "b">>
eNoDot == <<"a", "@", "b">>
ValidateInputs == {eLower, eUpperDomain, eNoAt, eNoDot, ePadded}

ErrInvalidFormat == "Invalid email format"
ErrNoDomain == "Could not extract domain from email"
ErrNoRecords == "Domain does not have valid MX or A records"

\* record.exchange of the MX records of a domain that has them
MxExchanges == <<"mx1">>

NoDetails == [f \in {} |-> NULL]
NoResult == [isValid |-> FALSE, error |-> NULL, details |-> NoDetails]

IdleValidation ==
  [pc |-> "idle", email |-> EmptyString, domain |-> EmptyString,
   dns |-> [t \in LookupTypes |-> "fail"], mxRecords |-> <<>>,
   lookups |-> <<>>, result |-> NoResult]

\* emailRegex.test(email)
ValidateFormat(email) == EmailRegexTest(email)

\* s.split(sep)
RECURSIVE Split(_, _)
Split(s, sep) ==
  IF \A i \in 1..Len(s) : s[i] # sep
  THEN <<s>>
  ELSE LET i == CHOOSE k \in 1..Len(s) :
                  s[k] = sep /\ \A j \in 1..(k - 1) : s[j] # sep
       IN <<SubSeq(s, 1, i - 1)>> \o Split(SubSeq(s, i + 1, Len(s)), sep)

ExtractDomain(email) ==
  LET parts == Split(email, "@")
  IN IF Len(parts) = 2 THEN ToLowerCase(parts[2]) ELSE EmptyString

ValidResult(domain, mxRecords) ==
  [isValid |-> TRUE, error |-> NULL,
   details |-> [domain |-> domain, mxRecords |-> mxRecords,
                hasRecords |-> TRUE]]

InvalidResult(domain) ==
  [isValid |-> FALSE, error |-> ErrNoRecords,
   details |-> [domain |-> domain, hasRecords |-> FALSE]]

Finished(v, result) == [v EXCEPT !.pc = "done", !.result = result]

\* a validate that goes to the DNS whatever the format check says
StartValidate_noShortCircuit(v, email, dns) ==
  [v EXCEPT !.pc = "mx", !.email = email, !.dns = dns,
            !.domain = ExtractDomain(email)]

\* validate up to the call of validateDomain
StartValidate(v, email, dns) ==
  LET w == [v EXCEPT !.email = email, !.dns = dns]
  IN IF ~ValidateFormat(email)
     THEN Finished(w, [isValid |-> FALSE, error |-> ErrInvalidFormat,
                       details |-> NoDetails])
     ELSE IF ExtractDomain(email) = EmptyString
     THEN Finished(w, [isValid |-> FALSE, error |-> ErrNoDomain,
                       details |-> NoDetails])
     ELSE [w EXCEPT !.pc = "mx", !.domain = ExtractDomain(email)]

\* validateDomain, lines 43-50 and 53, 90-98: the MX lookup has settled
AfterResolveMx(v) ==
  LET mx == IF v.dns["MX"] = "records" THEN MxExchanges ELSE <<>>
      w == [v EXCEPT !.lookups = Append(@, "MX"), !.mxRecords = mx]
  IN IF Len(mx) = 0
     THEN [w EXCEPT !.pc = "a"]
     ELSE Finished(w, ValidResult(v.domain, mx))

\* validateDomain, lines 54-69 and 90-108: the A lookup has settled
AfterResolve4(v) ==
  LET w == [v EXCEPT !.lookups = Append(@, "A")]
  IN CASE v.dns["A"] = "records" -> Finished(w, ValidResult(v.domain, <<>>))
       [] v.dns["A"] = "empty" -> Finished(w, InvalidResult(v.domain))
       [] v.dns["A"] = "fail" -> [w EXCEPT !.pc = "aaaa"]

\* validateDomain, lines 70-108: the AAAA lookup has settled
AfterResolve6(v) ==
  LET w == [v EXCEPT !.lookups = Append(@, "AAAA")]
  IN IF v.dns["AAAA"] = "records"
     THEN Finished(w, ValidResult(v.domain, <<>>))
     ELSE Finished(w, InvalidResult(v.domain))

Validate(email, dns) ==
  /\ val.pc = "idle"
  /\ val' = StartValidate(val, email, dns)
  /\ UNCHANGED notVal

ResolveMx ==
  /\ val.pc = "mx"
  /\ val' = AfterResolveMx(val)
  /\ UNCHANGED notVal

Resolve4 ==
  /\ val.pc = "a"
  /\ val' = AfterResolve4(val)
  /\ UNCHANGED notVal

Resolve6 ==
  /\ val.pc = "aaaa"
  /\ val' = AfterResolve6(val)
  /\ UNCHANGED notVal

ValidateCall == \E email \in ValidateInputs, dns \in DnsStates : Validate(email, dns)

(* --------------------------- contact handler --------------------------- *)
\* 'contact@softdev-solutions.com'
adminEmail ==
  <<"c", "o", "n", "t", "a", "c", "t", "@", "s", "o", "f", "t", "d", "e",
    "v", "-", "s", "o", "l", "u", "t", "i", "o", "n", "s", ".", "c", "o", "m">>

\* s.includes(sub)
Includes(s, sub) ==
  \E i \in 1..(Len(s) - Len(sub) + 1) : SubSeq(s, i, i + Len(sub) - 1) = sub

p550 == <<"5", "5", "0">>
p550511 == <<"5", "5", "0", "-", "5", ".", "1", ".", "1">>
p451 == <<"4", "5", "1">>
pTemporarily == <<"t", "e", "m", "p", "o", "r", "a", "r", "i", "l", "y">>
pInvalid == <<"i", "n", "v", "a", "l", "i", "d">>
pUnreachable == <<"u", "n", "r", "e", "a", "c", "h", "a", "b", "l", "e">>
pConnection == <<"c", "o", "n", "n", "e", "c", "t", "i", "o", "n">>
pNetwork == <<"n", "e", "t", "w", "o", "r", "k">>
pUnknownError ==
  <<"U", "n", "k", "n", "o", "w", "n", " ", "e", "r", "r", "o", "r">>

\* messages of the errors sendMail rejects with
SmtpErrorMessages ==
  {p550511 \o <<" ">> \o pInvalid,
   p550 \o <<" ">> \o pUnreachable,
   p451 \o <<" ", "x">>,
   <<"x", " ">> \o pTemporarily,
   pInvalid, pUnreachable, pConnection, pNetwork,
   <<"x">>}

MsgGeneric == "Failed to send message. Please try again later."
Msg550 == "The recipient email address is invalid or unreachable. Please contact support at contact@softdev-solutions.com."
Msg550511 == "The recipient email address does not exist. Please contact support directly."
MsgTemporary == "Email service is temporarily unavailable. Please try again in a few minutes."
MsgUnreachable == "Unable to reach the recipient email address. Please try again later or contact us via phone."
MsgNetwork == "Network connection error. Please check your internet connection and try again."
MsgContactRequired == "Name, email, and message are required"
MsgServiceUnavailable == "Email service is not available. Please try again later."
MsgContactSubmitted == "Your message has been submitted. We will review and respond soon."

\* the if / else-if chain of lines 418-430
MapSmtpError(errorMessage) ==
  IF Includes(errorMessage, p550) \/ Includes(errorMessage, p550)
  THEN Msg550
  ELSE IF Includes(errorMessage, p550511)
  THEN Msg550511
  ELSE IF Includes(errorMessage, p451) \/ Includes(errorMessage, pTemporarily)
  THEN MsgTemporary
  ELSE IF \/ Includes(errorMessage, p550)
          \/ Includes(errorMessage, pInvalid)
          \/ Includes(errorMessage, pUnreachable)
  THEN MsgUnreachable
  ELSE IF Includes(errorMessage, pConnection) \/ Includes(errorMessage, pNetwork)
  THEN MsgNetwork
  ELSE MsgGeneric

\* what transporter.sendMail does: resolves with info, rejects with an
\* Error carrying a message, or rejects with something that is not an Error
SendMailOutcomes ==
  {[kind |-> "sent", message |-> EmptyString],
   [kind |-> "nonError", message |-> EmptyString]}
  \cup {[kind |-> "error", message |-> m] : m \in SmtpErrorMessages}

\* what testConnection returns: no transporter, verify() rejects, or success
ConnectionOutcomes == {"none", "verifyFails", "ok"}

ContactInputs ==
  {[name |-> sA, email |-> eLower, message |-> sB],
   [name |-> sA, email |-> eNoAt, message |-> sB, company |-> sA],
   [name |-> sA, email |-> eLower],
   [name |-> EmptyString, email |-> eLower, message |-> sB]}

IdleContact ==
  [pc |-> "idle", body |-> NoData, status |-> 0, error |-> NULL,
   errorDetail |-> NULL, success |-> FALSE, validation |-> NoResult,
   sendAttempts |-> 0, smtpError |-> EmptyString]

\* the text of validation.error inside the 400 response of line 335
InvalidRecipient(validationError) ==
  <<"The recipient email address is not valid: ", validationError,
    ". Please contact us at (+65) 9155 6241.">>

ContactRespond(c, status, error) ==
  [c EXCEPT !.pc = "done", !.status = status, !.error = error]

\* lines 310-329: the body arrives, is checked, and validate(adminEmail)
\* is called
ContactReceive(body, dns) ==
  /\ contact.pc = "idle"
  /\ val.pc = "idle"
  /\ IF \E f \in {"name", "email", "message"} :
          ~Has(body, f) \/ ~Truthy(body[f])
     THEN /\ contact' = ContactRespond([contact EXCEPT !.body = body], 400,
                                       MsgContactRequired)
          /\ val' = val
     ELSE /\ contact' = [contact EXCEPT !.pc = "validating", !.body = body]
          /\ val' = StartValidate(val, adminEmail, dns)
  /\ UNCHANGED <<storeVars, probe, db>>

\* a handler that goes on to the delivery whatever validate returned
AfterValidation_ignored(c, validation) ==
  [c EXCEPT !.pc = "testing", !.validation = validation]

\* lines 329-342: validate has returned
AfterValidation(c, validation) ==
  IF ~validation.isValid
  THEN [ContactRespond(c, 400, InvalidRecipient(validation.error)) EXCEPT
          !.validation = validation, !.errorDetail = validation.details]
  ELSE [c EXCEPT !.pc = "testing", !.validation = validation]

ContactValidated ==
  /\ contact.pc = "validating"
  /\ val.pc = "done"
  /\ contact' = AfterValidation(contact, val.result)
  /\ UNCHANGED <<storeVars, val, probe, db>>

\* lines 377-395: testConnection has returned; with success the transporter
\* is there and sendMail is called
ContactTested(outcome) ==
  /\ contact.pc = "testing"
  /\ contact' = IF outcome # "ok"
                THEN ContactRespond(contact, 503, MsgServiceUnavailable)
                ELSE [contact EXCEPT !.pc = "sending", !.sendAttempts = @ + 1]
  /\ UNCHANGED <<storeVars, val, probe, db>>

\* lines 395-436: sendMail has settled
ContactSent(outcome) ==
  /\ contact.pc = "sending"
  /\ contact' =
       IF outcome.kind = "sent"
       THEN [contact EXCEPT !.pc = "done", !.status = 200, !.success = TRUE]
       ELSE LET errorMessage == IF outcome.kind = "error"
                                THEN outcome.message ELSE pUnknownError
            IN [ContactRespond(contact, 500, MapSmtpError(errorMessage))
                  EXCEPT !.smtpError = errorMessage]
  /\ UNCHANGED <<storeVars, val, probe, db>>

\* the next request: the handler keeps nothing between requests
ContactNext ==
  /\ contact.pc = "done"
  /\ contact' = IdleContact
  /\ val' = IdleValidation
  /\ UNCHANGED <<storeVars, probe, db>>

ContactPost ==
  \E body \in ContactInputs, dns \in DnsStates : ContactReceive(body, dns)
ContactTest == \E outcome \in ConnectionOutcomes : ContactTested(outcome)
ContactSend == \E outcome \in SendMailOutcomes : ContactSent(outcome)

(* ------------------------- queries of the store ------------------------ *)
Backends == {"pg", "sqlite"}

\* character comparison of LIKE: PostgreSQL compares as is, SQLite folds
\* the case of ASCII letters
LikeChar(backend, a, b) ==
  IF backend = "sqlite" THEN ToLowerChar(a) = ToLowerChar(b) ELSE a = b

\* s LIKE pat, with the wildcards % and _
RECURSIVE Like(_, _, _)
Like(backend, s, pat) ==
  IF pat = <<>> THEN s = <<>>
  ELSE IF Head(pat) = "%"
  THEN \E k \in 0..Len(s) : Like(backend, SubSeq(s, k + 1, Len(s)), Tail(pat))
  ELSE /\ s # <<>>
       /\ Head(pat) = "_" \/ LikeChar(backend, Head(s), Head(pat))
       /\ Like(backend, Tail(s), Tail(pat))

\* `%${searchTerm}%`
SearchPattern(searchTerm) == <<"%">> \o searchTerm \o <<"%">>

\* the sequences ORDER BY created_at DESC can return for a set of rows;
\* rows with the same created_at come in any order
OrderByCreatedAtDesc(rs) ==
  {q \in [1..Cardinality(rs) -> rs] :
     /\ \A i \in DOMAIN q, j \in DOMAIN q : q[i] = q[j] => i = j
     /\ \A i \in DOMAIN q, j \in DOMAIN q :
          i < j => q[i].created_at >= q[j].created_at}

\* the rows searchUsers selects
SearchUsers(backend, rs, searchTerm) ==
  LET pat == SearchPattern(searchTerm)
  IN {u \in rs : \/ Like(backend, u.first_name, pat)
                 \/ Like(backend, u.last_name, pat)
                 \/ Like(backend, u.email, pat)
                 \/ Like(backend, u.company, pat)}

\* if (limit), if (offset): a number is truthy iff it is not 0 (nor NaN)
TruthyNumber(args, f) == Has(args, f) /\ args[f] # 0

\* the statement getAllUsers builds; SQLite has no OFFSET without LIMIT
ListFails(backend, args) ==
  /\ backend = "sqlite"
  /\ ~TruthyNumber(args, "limit")
  /\ TruthyNumber(args, "offset")

\* LIMIT and OFFSET applied to an ordered result
GetAllUsers(ordered, args) ==
  LET skip == IF TruthyNumber(args, "offset") THEN args.offset ELSE 0
      rest == SubSeq(ordered, skip + 1, Len(ordered))
  IN IF TruthyNumber(args, "limit") /\ args.limit < Len(rest)
     THEN SubSeq(rest, 1, args.limit)
     ELSE rest

cAb == <<"A", "b">>

QueryCreateInputs ==
  {[firstName |-> sA, lastName |-> sA, email |-> eLower, company |-> cAb,
    phone |-> sB],
   [firstName |-> sA, lastName |-> sA, email |-> eOther, company |-> sA,
    phone |-> sA]}

SearchTerms == {cAb, <<"a", "b">>, <<"b", "@">>, sB, <<"_", "b">>}

ListInputs ==
  {NoData, [limit |-> 0], [limit |-> 1], [offset |-> 1], [offset |-> 0],
   [limit |-> 1, offset |-> 1], [limit |-> 0, offset |-> 1]}

RepoSearch(backend, searchTerm) ==
  /\ \E q \in OrderByCreatedAtDesc(SearchUsers(backend, rows, searchTerm)) :
       last' = [op |-> "search", id |-> 0,
                data |-> [backend |-> backend, term |-> searchTerm],
                ret |-> q, ok |-> TRUE, err |-> "NONE"]
  /\ UNCHANGED mailVars
  /\ UNCHANGED <<rows, nextId, now, req, emailConfigured>>

RepoList(backend, args) ==
  /\ \E q \in OrderByCreatedAtDesc(rows) :
       last' = IF ListFails(backend, args)
               THEN [op |-> "list", id |-> 0,
                     data |-> [backend |-> backend, args |-> args],
                     ret |-> <<>>, ok |-> FALSE, err |-> "SYNTAX"]
               ELSE [op |-> "list", id |-> 0,
                     data |-> [backend |-> backend, args |-> args],
                     ret |-> GetAllUsers(q, args), ok |-> TRUE,
                     err |-> "NONE"]
  /\ UNCHANGED mailVars
  /\ UNCHANGED <<rows, nextId, now, req, emailConfigured>>

QueryCreate == \E userData \in QueryCreateInputs : RepoCreate(userData)
Search ==
  \E backend \in Backends, searchTerm \in SearchTerms :
    RepoSearch(backend, searchTerm)
List == \E backend \in Backends, args \in ListInputs : RepoList(backend, args)

(* ------------- the connection pool and its initialization ------------- *)
\* program constants of initializeDatabaseWithRetry
DefaultMaxRetries == 10
RenderMaxRetries == 15
DefaultInitialDelayMs == 2000
RenderBaseDelay == 3000
MaxDelayMs == 30000
JitterMs == 1000
\* delays are kept in eighths of a millisecond: baseDelay * 1.5^(attempt - 1)
\* is a multiple of 1/8 ms for as long as it is below the cap
PerMs == 8

\* the texts isConnectionError looks for
tECONNREFUSED ==
  <<"E", "C", "O", "N", "N", "R", "E", "F", "U", "S", "E", "D">>
tConnect ==
  <<"c", "o", "n", "n", "e", "c", "t">>
tTimeout ==
  <<"t", "i", "m", "e", "o", "u", "t">>
tConnectionTerminated ==
  <<"C", "o", "n", "n", "e", "c", "t", "i", "o", "n", " ", "t", "e", "r",
    "m", "i", "n", "a", "t", "e", "d">>
tENOTFOUND ==
  <<"E", "N", "O", "T", "F", "O", "U", "N", "D">>
tETIMEDOUT ==
  <<"E", "T", "I", "M", "E", "D", "O", "U", "T">>
tSSL ==
  <<"S", "S", "L">>
tCertificate ==
  <<"c", "e", "r", "t", "i", "f", "i", "c", "a", "t", "e">>
tGetaddrinfo ==
  <<"g", "e", "t", "a", "d", "d", "r", "i", "n", "f", "o">>
tSocketHangUp ==
  <<"s", "o", "c", "k", "e", "t", " ", "h", "a", "n", "g", " ", "u", "p">>

AggregatePatterns ==
  {tECONNREFUSED, tConnect, tTimeout, tConnectionTerminated, tENOTFOUND,
   tETIMEDOUT, tGetaddrinfo, tSocketHangUp}

ErrorPatterns == AggregatePatterns \cup {tSSL, tCertificate}

\* messages of the errors a query of the pool rejects with
mRefused ==
  <<"c", "o", "n", "n", "e", "c", "t", " ", "E", "C", "O", "N", "N", "R",
    "E", "F", "U", "S", "E", "D", " ", "1", "2", "7", ".", "0", ".", "0",
    ".", "1", ":", "5", "4", "3", "2">>
mNotFound ==
  <<"g", "e", "t", "a", "d", "d", "r", "i", "n", "f", "o", " ", "E", "N",
    "O", "T", "F", "O", "U", "N", "D", " ", "d", "b">>
mTimedOut ==
  <<"t", "i", "m", "e", "o", "u", "t", " ", "e", "x", "p", "i", "r", "e",
    "d">>
mSelfSigned ==
  <<"s", "e", "l", "f", " ", "s", "i", "g", "n", "e", "d", " ", "c", "e",
    "r", "t", "i", "f", "i", "c", "a", "t", "e">>
mHangUp ==
  <<"s", "o", "c", "k", "e", "t", " ", "h", "a", "n", "g", " ", "u", "p">>
mPassword ==
  <<"p", "a", "s", "s", "w", "o", "r", "d", " ", "a", "u", "t", "h", "e",
    "n", "t", "i", "c", "a", "t", "i", "o", "n", " ", "f", "a", "i", "l",
    "e", "d", " ", "f", "o", "r", " ", "u", "s", "e", "r", " ", "\"", "a",
    "p", "p", "\"">>
mPermission ==
  <<"p", "e", "r", "m", "i", "s", "s", "i", "o", "n", " ", "d", "e", "n",
    "i", "e", "d", " ", "f", "o", "r", " ", "s", "c", "h", "e", "m", "a",
    " ", "p", "u", "b", "l", "i", "c">>
mTestFailed ==
  <<"D", "a", "t", "a", "b", "a", "s", "e", " ", "c", "o", "n", "n", "e",
    "c", "t", "i", "o", "n", " ", "t", "e", "s", "t", " ", "f", "a", "i",
    "l", "e", "d", ":", " ">>
mUnexpected ==
  <<"D", "a", "t", "a", "b", "a", "s", "e", " ", "c", "o", "n", "n", "e",
    "c", "t", "i", "o", "n", " ", "t", "e", "s", "t", " ", "f", "a", "i",
    "l", "e", "d", ":", " ", "u", "n", "e", "x", "p", "e", "c", "t", "e",
    "d", " ", "r", "e", "s", "u", "l", "t">>

\* a thrown value: an Error, or an AggregateError with its errors
Error(message) == [kind |-> "Error", message |-> message, errors |-> <<>>]
AggregateError(message, errors) ==
  [kind |-> "AggregateError", message |-> message, errors |-> errors]
NoError == [kind |-> "none", message |-> EmptyString, errors |-> <<>>]

\* what can go wrong with a query, each fault with the kind of fault it is
Faults ==
  {[class |-> "refused", error |-> Error(mRefused)],
   [class |-> "dns", error |-> Error(mNotFound)],
   [class |-> "timeout", error |-> Error(mTimedOut)],
   [class |-> "tls", error |-> Error(mSelfSigned)],
   [class |-> "reset", error |-> Error(mHangUp)],
   [class |-> "refused",
    error |-> AggregateError(EmptyString, <<mRefused, mRefused>>)],
   [class |-> "authentication", error |-> Error(mPassword)],
   [class |-> "permission", error |-> Error(mPermission)]}

Jitters == {0, 500 * PerMs, JitterMs * PerMs - 1}

\* the catch of testDatabaseConnection: an Error is thrown again with the
\* context in front of its message
Rethrown(error) ==
  IF error.kind \in {"Error", "AggregateError"}
  THEN Error(mTestFailed \o error.message)
  ELSE error

\* the classification in the catch of the retry loop
IsConnectionError(error) ==
  IF error.kind = "AggregateError"
  THEN \E i \in 1..Len(error.errors) :
         \E p \in AggregatePatterns : Includes(error.errors[i], p)
  ELSE IF error.kind = "Error"
  THEN \E p \in ErrorPatterns : Includes(error.message, p)
  ELSE FALSE

\* baseDelay * Math.pow(1.5, attempt - 1), in eighths of a millisecond; the
\* division is exact below the cap and rounds down above it
RECURSIVE ExponentialDelay(_, _)
ExponentialDelay(baseDelay, attempt) ==
  IF attempt = 1 THEN baseDelay * PerMs
  ELSE (ExponentialDelay(baseDelay, attempt - 1) * 3) \div 2

Min(a, b) == IF a <= b THEN a ELSE b

\* a delay without its cap
DelayMs_uncapped(baseDelay, attempt, jitter) ==
  ExponentialDelay(baseDelay, attempt) + jitter

\* Math.min(exponentialDelay + jitter, 30000)
DelayMs(baseDelay, attempt, jitter) ==
  Min(ExponentialDelay(baseDelay, attempt) + jitter, MaxDelayMs * PerMs)

Ops == {"o1", "o2"}
InsertOutcomes == {"row", "relation does not exist"}

NoLoop ==
  [pc |-> "none", attempt |-> 0, finalMaxRetries |-> 0, baseDelay |-> 0,
   delayMs |-> 0, jitter |-> 0, error |-> NoError]

IdleOp ==
  [pc |-> "idle", awaiting |-> 0, initFailed |-> FALSE, inserts |-> 0,
   result |-> NULL]

NoPool ==
  [pool |-> 0, created |-> 0, timers |-> 0, scheduled |-> 0, closing |-> 0,
   dbInitialized |-> FALSE, initializationPromise |-> 0, started |-> 0,
   loops |-> [l \in 1..MaxLoops |-> NoLoop],
   ops |-> [o \in Ops |-> IdleOp],
   lastCall |-> [caller |-> "none", got |-> 0, handle |-> 0]]

\* a getDatabase that makes a pool at every call
GetDatabase_alwaysNew(d) ==
  [d EXCEPT !.pool = d.created + 1, !.created = @ + 1,
            !.timers = @ + 1, !.scheduled = @ + 1]

\* getDatabase: the pool is made at the first call, and making it sets the
\* timer of the delayed initialization
GetDatabase(d) ==
  IF d.pool = 0
  THEN [d EXCEPT !.pool = d.created + 1, !.created = @ + 1,
                 !.timers = @ + 1, !.scheduled = @ + 1]
  ELSE d

\* a getDatabase call can be taken within the bound of the model
CanGet(d) == d.pool # 0 \/ d.created < MaxPools

\* lines 273-287: the loop starts with the connection test of attempt 1
StartLoop(d, render) ==
  LET g == GetDatabase(d)
      l == d.started + 1
  IN [g EXCEPT
        !.started = l,
        !.initializationPromise = l,
        !.loops[l] =
          [NoLoop EXCEPT
             !.pc = "test",
             !.attempt = 1,
             !.finalMaxRetries =
               IF render THEN RenderMaxRetries ELSE DefaultMaxRetries,
             !.baseDelay =
               IF render THEN RenderBaseDelay ELSE DefaultInitialDelayMs]]

\* an initializeDatabaseWithRetry that does not look for a loop in flight
InitializeDatabaseWithRetry_noShare(d, render) ==
  IF d.dbInitialized
  THEN [db |-> d, got |-> 0]
  ELSE [db |-> StartLoop(d, render), got |-> d.started + 1]

\* initializeDatabaseWithRetry up to its first await: the state it leaves
\* and the promise it returns (0: it returned at once)
InitializeDatabaseWithRetry(d, render) ==
  IF d.dbInitialized
  THEN [db |-> d, got |-> 0]
  ELSE IF d.initializationPromise # 0
  THEN [db |-> d, got |-> d.initializationPromise]
  ELSE [db |-> StartLoop(d, render), got |-> d.started + 1]

CanCall(d) ==
  \/ d.dbInitialized
  \/ d.initializationPromise # 0
  \/ d.started < MaxLoops /\ CanGet(d)

\* a catch that goes on after the last attempt as well
AfterFailure_oneMore(lp, error, jitter) ==
  IF IsConnectionError(error) /\ lp.attempt <= lp.finalMaxRetries
  THEN [lp EXCEPT !.pc = "wait", !.jitter = jitter,
                  !.delayMs = DelayMs(lp.baseDelay, lp.attempt, jitter)]
  ELSE [NoLoop EXCEPT !.pc = "rejected", !.error = error]

\* lines 292-360: the catch of one attempt: wait and go on, or give up
AfterFailure(lp, error, jitter) ==
  IF IsConnectionError(error) /\ lp.attempt < lp.finalMaxRetries
  THEN [lp EXCEPT !.pc = "wait", !.jitter = jitter,
                  !.delayMs = DelayMs(lp.baseDelay, lp.attempt, jitter)]
  ELSE [NoLoop EXCEPT !.pc = "rejected", !.error = error]

\* the state after the loop l has gone through its catch
Failed(d, l, error, jitter) ==
  LET lp == AfterFailure(d.loops[l], error, jitter)
  IN [d EXCEPT !.loops[l] = lp,
               !.initializationPromise =
                 IF lp.pc = "rejected" THEN 0 ELSE @]

\* lines 288-291: the loop ends in success
Succeeded(d, l) ==
  [d EXCEPT !.loops[l] = [NoLoop EXCEPT !.pc = "resolved"],
            !.dbInitialized = TRUE,
            !.initializationPromise = 0]

\* a query that succeeds, and a SELECT 1 whose row is not 1
Ok == [class |-> "ok", error |-> NoError]
Unexpected == [class |-> "unexpected", error |-> Error(mUnexpected)]

\* SELECT 1 of testDatabaseConnection settles; on success initializeDatabase
\* takes the pool and sends its CREATE statements
TestSettles(l, outcome, jitter) ==
  /\ db.loops[l].pc = "test"
  /\ outcome.class = "ok" => CanGet(db)
  /\ db' =
       IF outcome.class = "ok"
       THEN [GetDatabase(db) EXCEPT !.loops[l].pc = "schema"]
       ELSE Failed(db, l, Rethrown(outcome.error), jitter)
  /\ UNCHANGED notDb

\* the CREATE statements of initializeDatabase settle
SchemaSettles(l, outcome, jitter) ==
  /\ db.loops[l].pc = "schema"
  /\ db' = IF outcome.class = "ok" THEN Succeeded(db, l)
           ELSE Failed(db, l, outcome.error, jitter)
  /\ UNCHANGED notDb

\* the backoff timer fires: the next attempt starts with its connection test
WaitEnds(l) ==
  /\ db.loops[l].pc = "wait"
  /\ CanGet(db)
  /\ db' = [GetDatabase(db) EXCEPT
              !.loops[l] = [db.loops[l] EXCEPT
                              !.pc = "test", !.attempt = @ + 1,
                              !.delayMs = 0, !.jitter = 0]]
  /\ UNCHANGED notDb

\* a caller outside this module asks for the pool
GetDatabaseCall ==
  /\ CanGet(db)
  /\ db' = [GetDatabase(db) EXCEPT
              !.lastCall = [caller |-> "getDatabase", got |-> 0,
                            handle |-> GetDatabase(db).pool]]
  /\ UNCHANGED notDb

\* the timer set by getDatabase fires and calls initializeDatabaseWithRetry
TimerFires(render) ==
  /\ db.timers > 0
  /\ CanCall(db)
  /\ LET c == InitializeDatabaseWithRetry(db, render)
     IN db' = [c.db EXCEPT
                 !.timers = @ - 1,
                 !.lastCall = [caller |-> "timer", got |-> c.got,
                               handle |-> 0]]
  /\ UNCHANGED notDb

\* an ensureInitialized that lets the failure of the initialization through
Ensured_throws(op, settled) ==
  IF settled = "rejected"
  THEN [op EXCEPT !.pc = "done", !.initFailed = TRUE,
                  !.result = "initialization failed"]
  ELSE [op EXCEPT !.pc = "insert", !.inserts = @ + 1]

\* ensureInitialized returns, whatever became of the initialization, and
\* createUser sends its INSERT
Ensured(op, settled) ==
  [op EXCEPT !.pc = "insert", !.inserts = @ + 1,
             !.initFailed = (settled = "rejected")]

\* createUser is called: ensureInitialized calls initializeDatabaseWithRetry
CreateUserCall(o, render) ==
  /\ db.ops[o].pc = "idle"
  /\ CanCall(db)
  /\ LET c == InitializeDatabaseWithRetry(db, render)
     IN db' = [c.db EXCEPT
                 !.ops[o] = IF c.got = 0 THEN Ensured(@, "resolved")
                            ELSE [@ EXCEPT !.pc = "ensure",
                                           !.awaiting = c.got],
                 !.lastCall = [caller |-> o, got |-> c.got, handle |-> 0]]
  /\ UNCHANGED notDb

\* the promise ensureInitialized awaits settles
EnsureSettles(o) ==
  /\ db.ops[o].pc = "ensure"
  /\ db.loops[db.ops[o].awaiting].pc \in {"resolved", "rejected"}
  /\ db' = [db EXCEPT
              !.ops[o] = Ensured(@, db.loops[db.ops[o].awaiting].pc)]
  /\ UNCHANGED notDb

\* the INSERT of createUser settles: the row or the failure of the query
InsertSettles(o, outcome) ==
  /\ db.ops[o].pc = "insert"
  /\ db' = [db EXCEPT !.ops[o] = [@ EXCEPT !.pc = "done",
                                           !.result = outcome]]
  /\ UNCHANGED notDb

\* a closeDatabase that also forgets that the schema is set up
Closed_resets(d) ==
  [d EXCEPT !.pool = 0, !.closing = 0, !.dbInitialized = FALSE]

\* closeDatabase after its await: pool = null
Closed(d) == [d EXCEPT !.pool = 0, !.closing = 0]

\* closeDatabase is called: pool.end() is awaited
CloseCall ==
  /\ db.pool # 0
  /\ db.closing = 0
  /\ db' = [db EXCEPT !.closing = db.pool]
  /\ UNCHANGED notDb

CloseDone ==
  /\ db.closing # 0
  /\ db' = Closed(db)
  /\ UNCHANGED notDb

(* ------------------- error responses of the handlers ------------------- *)
\* texts of internal errors (exception messages) that match none of the
\* patterns of the contact handler
InternalMessages == {<<"x">>, <<"y">>, <<"z">>}

MsgTransporterNotInitialized == "Transporter not initialized"
MsgMissingTestFields == "Missing required fields: to, firstName, lastName, company"
MsgEmailTestUnavailable == "Email service not available"
MsgEmailTestFailed == "Failed to send email"
MsgEmailTestSent == "Test email sent successfully"
MsgHealthy == "Database connection successful"
MsgSmtpCredentials == "SMTP User and Password are required"
MsgManualSetup == "Configuration prepared. Please create .env.local manually with the following content:"
MsgConfigSaved == "Email configuration saved successfully. Please restart the service to apply changes."

\* a response: HTTP status, and the fields of the JSON body that matter
Response(status, error, details) ==
  [status |-> status, error |-> error, details |-> details]

\* EmailService.testConnection: {success, error?}
TestConnection(outcome, message) ==
  CASE outcome = "none" ->
         [success |-> FALSE, error |-> MsgTransporterNotInitialized]
    [] outcome = "verifyFails" -> [success |-> FALSE, error |-> message]
    [] outcome = "ok" -> [success |-> TRUE, error |-> NULL]

\* EmailService.sendWelcomeEmail seen from a caller: sendMail resolves, or
\* rejects with an Error whose message the catch returns as error
WelcomeResult(configured, outcome, message) ==
  IF ~configured
  THEN [success |-> FALSE, messageId |-> NULL, error |-> ErrNotConfigured]
  ELSE IF outcome = "sent"
  THEN [success |-> TRUE, messageId |-> "m1", error |-> NULL]
  ELSE [success |-> FALSE, messageId |-> NULL, error |-> message]

EmailTestInputs ==
  {[to |-> eLower, firstName |-> sA, lastName |-> sA, company |-> sA],
   [to |-> eLower, firstName |-> sA, lastName |-> sA]}

\* POST /api/email/test
EmailTestPost(body, configured, connection, send, message) ==
  IF \E f \in {"to", "firstName", "lastName", "company"} :
       ~Has(body, f) \/ ~Truthy(body[f])
  THEN Response(400, MsgMissingTestFields, NULL)
  ELSE LET connectionTest == TestConnection(connection, message)
           emailResult == WelcomeResult(configured, send, message)
       IN IF ~connectionTest.success
          THEN Response(503, MsgEmailTestUnavailable, connectionTest.error)
          ELSE IF emailResult.success
          THEN Response(200, NULL, MsgEmailTestSent)
          ELSE Response(500, MsgEmailTestFailed, emailResult.error)

\* POST /contact when sendMail rejects with an Error of this message
ContactSendFailure(message) == Response(500, MapSmtpError(message), NULL)

\* POST /register when a store call throws an Error of this message
RegisterFailure(message) == Response(500, ErrInternal, NULL)

\* checkDatabaseHealth, and GET of the database route that returns it
HealthGet(dbFails, message) ==
  IF dbFails
  THEN [status |-> 200, error |-> "error", details |-> message]
  ELSE [status |-> 200, error |-> "healthy", details |-> MsgHealthy]

\* POST /api/email/configure: missing credentials, saved, or the manual
\* fallback when writing .env.local throws
ConfigurePost(config, writeFails, message) ==
  IF ~Truthy(config.smtpUser) \/ ~Truthy(config.smtpPass)
  THEN Response(400, MsgSmtpCredentials, NULL)
  ELSE IF writeFails
  THEN Response(200, NULL, <<MsgManualSetup, config.smtpUser, config.smtpPass>>)
  ELSE Response(200, NULL, MsgConfigSaved)

NoProbe == [handler |-> "none", message |-> <<EmptyString, EmptyString>>,
            scenario |-> NoData,
            response |-> <<Response(0, NULL, NULL), Response(0, NULL, NULL)>>]

\* the same request served twice, the two runs differing only in the text
\* of the internal error
Probe(handler, scenario, m1, m2, r1, r2) ==
  [handler |-> handler, message |-> <<m1, m2>>,
   scenario |-> scenario, response |-> <<r1, r2>>]

notProbe == <<storeVars, val, contact, db>>

ProbeEmailTest ==
  \E body \in EmailTestInputs, configured \in BOOLEAN,
     connection \in ConnectionOutcomes, send \in {"sent", "rejected"},
     m1 \in InternalMessages, m2 \in InternalMessages :
    /\ m1 # m2
    /\ probe' = Probe("emailTest",
          [body |-> body, configured |-> configured,
           connection |-> connection, send |-> send], m1, m2,
          EmailTestPost(body, configured, connection, send, m1),
          EmailTestPost(body, configured, connection, send, m2))
    /\ UNCHANGED notProbe

ProbeContact ==
  \E m1 \in InternalMessages, m2 \in InternalMessages :
    /\ m1 # m2
    /\ probe' = Probe("contact", NoData, m1, m2,
          ContactSendFailure(m1), ContactSendFailure(m2))
    /\ UNCHANGED notProbe

ProbeRegister ==
  \E m1 \in InternalMessages, m2 \in InternalMessages :
    /\ m1 # m2
    /\ probe' = Probe("register", NoData, m1, m2,
          RegisterFailure(m1), RegisterFailure(m2))
    /\ UNCHANGED notProbe

ProbeHealth ==
  \E dbFails \in BOOLEAN, m1 \in InternalMessages, m2 \in InternalMessages :
    /\ m1 # m2
    /\ probe' = Probe("health", [dbFails |-> dbFails], m1, m2,
          HealthGet(dbFails, m1), HealthGet(dbFails, m2))
    /\ UNCHANGED notProbe

ProbeConfigure ==
  \E config \in {[smtpUser |-> sA, smtpPass |-> sB],
                 [smtpUser |-> sA, smtpPass |-> EmptyString]},
     writeFails \in BOOLEAN,
     m1 \in InternalMessages, m2 \in InternalMessages :
    /\ m1 # m2
    /\ probe' = Probe("configure", [config |-> config, writeFails |-> writeFails],
          m1, m2,
          ConfigurePost(config, writeFails, m1),
          ConfigurePost(config, writeFails, m2))
    /\ UNCHANGED notProbe

Init ==
  /\ rows = {}
  /\ nextId = 1
  /\ now = 0
  /\ last = NoCall
  /\ req = [r \in Requests |-> IdleRequest]
  /\ emailConfigured \in BOOLEAN
  /\ val = IdleValidation
  /\ contact = IdleContact
  /\ probe = NoProbe
  /\ db = GetDatabase(NoPool)

\* the record store under its direct callers
NextStore == Create \/ Update \/ Delete \/ Tick

SpecStore == Init /\ [][NextStore]_vars

\* registration requests, next to deletions by an admin
NextRegister ==
  \/ ReceiveRequest
  \/ Lookup
  \/ Insert
  \/ Welcome
  \/ Notify
  \/ TestAccountCreated
  \/ Remove
  \/ Tick

SpecRegister == Init /\ [][NextRegister]_vars

\* registration requests whose awaited calls all settle
NextGates ==
  \/ ReceiveRequest
  \/ Lookup
  \/ Insert
  \/ Welcome
  \/ Notify

\* the awaited call of some request in flight settles
Settle == Lookup \/ Insert \/ Welcome \/ Notify

SpecGates == Init /\ [][NextGates]_vars /\ WF_vars(Settle)

\* one registration next to the direct callers of the repository
RegisterOne ==
  \/ \E body \in RegisterInputs : Receive("r1", body)
  \/ CheckDuplicate("r1")
  \/ \E countFails \in BOOLEAN : Persist("r1", countFails)
  \/ \E outcome \in SmtpOutcomes : WelcomeDone("r1", outcome)
  \/ \E outcome \in SmtpOutcomes : AdminDone("r1", outcome)

AdminUpdate ==
  \E id \in Ids, userData \in {[email |-> eOther, lastName |-> EmptyString],
                                [message |-> EmptyString]} :
    RepoUpdate(id, userData)

NextFlags == RegisterOne \/ AdminUpdate \/ Delete \/ Tick

SpecFlags == Init /\ [][NextFlags]_vars

\* bodies of POST /register with one required field missing or empty, or
\* with an email that is not of the form x@y.z
ValidBody ==
  [firstName |-> sA, lastName |-> sA, email |-> eOther, company |-> sA,
   phone |-> sA]

IntakeInputs ==
  RegisterInputs
  \cup {[f \in RequiredFields \ {g} |-> ValidBody[f]] : g \in RequiredFields}
  \cup {[ValidBody EXCEPT ![g] = EmptyString] : g \in RequiredFields}
  \cup {[ValidBody EXCEPT !.email = e] : e \in {eNoAt, eNoDot}}

\* one registration with any of these bodies, next to direct inserts
IntakeOne ==
  \/ \E body \in IntakeInputs : Receive("r1", body)
  \/ CheckDuplicate("r1")
  \/ \E countFails \in BOOLEAN : Persist("r1", countFails)
  \/ \E outcome \in SmtpOutcomes : WelcomeDone("r1", outcome)
  \/ \E outcome \in SmtpOutcomes : AdminDone("r1", outcome)

NextIntake == IntakeOne \/ Create \/ Tick

SpecIntake == Init /\ [][NextIntake]_vars

\* calls of EmailValidator.validate
NextValidate == ValidateCall \/ ResolveMx \/ Resolve4 \/ Resolve6

SpecValidate == Init /\ [][NextValidate]_vars

\* the queries of the repository, on both backends
NextQuery == QueryCreate \/ Search \/ List \/ Tick

SpecQuery == Init /\ [][NextQuery]_vars

\* one initialization loop, started by the timer of getDatabase, under
\* every outcome of its queries
DelayedInit == \E render \in BOOLEAN : TimerFires(render)

LoopTest ==
  \E l \in 1..MaxLoops, outcome \in {Ok, Unexpected} \cup Faults,
     jitter \in Jitters :
    TestSettles(l, outcome, jitter)

LoopSchema ==
  \E l \in 1..MaxLoops, outcome \in {Ok} \cup Faults, jitter \in Jitters :
    SchemaSettles(l, outcome, jitter)

Backoff == \E l \in 1..MaxLoops : WaitEnds(l)

NextRetry == DelayedInit \/ LoopTest \/ LoopSchema \/ Backoff

\* a query settles and a timer fires
SpecRetry == Init /\ [][NextRetry]_vars /\ WF_vars(NextRetry)

\* the pool under its callers: the timer, createUser calls, other callers of
\* getDatabase and closeDatabase, with a refused connection and a missing
\* permission as the faults
SomeFaults ==
  {f \in Faults : f.error \in {Error(mRefused), Error(mPermission)}}

PoolInit == TimerFires(FALSE)

\* the connection test fails in the first MaxFaultyTests attempts of a loop
\* at most (SpecRetry follows a loop to its last attempt)
PoolTest ==
  \E l \in 1..MaxLoops, outcome \in {Ok} \cup SomeFaults :
    /\ outcome.class # "ok" => db.loops[l].attempt <= MaxFaultyTests
    /\ TestSettles(l, outcome, 0)

PoolSchema ==
  \E l \in 1..MaxLoops, outcome \in {Ok} \cup SomeFaults :
    SchemaSettles(l, outcome, 0)

CreateUserStart == \E o \in Ops : CreateUserCall(o, FALSE)
CreateUserEnsured == \E o \in Ops : EnsureSettles(o)
CreateUserInsert ==
  \E o \in Ops, outcome \in InsertOutcomes : InsertSettles(o, outcome)

NextPool ==
  \/ GetDatabaseCall
  \/ PoolInit
  \/ PoolTest
  \/ PoolSchema
  \/ Backoff
  \/ CreateUserStart
  \/ CreateUserEnsured
  \/ CreateUserInsert
  \/ CloseCall
  \/ CloseDone

SpecPool == Init /\ [][NextPool]_vars

\* every handler asked twice, with two texts of the internal error
NextErrors ==
  \/ ProbeEmailTest
  \/ ProbeContact
  \/ ProbeRegister
  \/ ProbeHealth
  \/ ProbeConfigure

SpecErrors == Init /\ [][NextErrors]_vars

\* the contact handler: POST /contact
NextContact ==
  \/ ContactPost
  \/ ResolveMx
  \/ Resolve4
  \/ Resolve6
  \/ ContactValidated
  \/ ContactTest
  \/ ContactSend
  \/ ContactNext

SpecContact == Init /\ [][NextContact]_vars

Next ==
  NextStore \/ NextRegister \/ NextValidate \/ NextContact \/ NextQuery
  \/ NextErrors \/ NextRetry \/ NextPool

Spec == Init /\ [][Next]_vars

(* ============================== claims ================================= *)
\* what the claims call lowercasing and trimming an email
LowerTrim(e) == ToLowerCase(Trim(e))

SameAddress(r1, r2) ==
  /\ Has(req[r1].body, "email")
  /\ Has(req[r2].body, "email")
  /\ LowerTrim(req[r1].body.email) = LowerTrim(req[r2].body.email)

\* r2 was received after r1 had been answered, r1 found no record of its
\* address, both passed validation, and nobody else wrote to the store
OneAfterTheOther(r1, r2) ==
  /\ r1 # r2
  /\ req[r2].pc = "done"
  /\ r1 \in req[r2].after
  /\ req[r1].status # 400
  /\ req[r2].status # 400
  /\ req[r1].fresh
  /\ req[r1].touched \subseteq {r1, r2}
  /\ req[r2].touched \subseteq {r1, r2}

C3_RaceAnsweredAsDuplicate ==
  \A r \in Requests :
    (req[r].pc = "done" /\ req[r].insertErr = "UNIQUE")
    => /\ req[r].status = 409
       /\ req[r].error = "An account with this email already exists"

\* C4: when sendWelcomeEmail returned success with a messageId, then from
\* the response on the stored record of the created user has email_sent
\* true, email_sent_at set and email_message_id equal to that messageId
\* (the record is there unless an admin deleted it meanwhile).
C4_WelcomeStatusRecorded ==
  \A r \in Requests :
    (/\ req[r].pc = "done"
     /\ req[r].welcomeAttempts = 1
     /\ req[r].welcome.success
     /\ req[r].welcome.messageId # NULL)
    => /\ \A n \in req[r].newUser : \A u \in rows :
            u.id = n.id
            => /\ u.email_sent = TRUE
               /\ u.email_sent_at # NullTime
               /\ u.email_message_id = req[r].welcome.messageId
       /\ Repo \notin req[r].touched
          => \E n \in req[r].newUser : \E u \in rows : u.id = n.id

C4_Witness ==
  \E r \in Requests :
    /\ req[r].pc = "done"
    /\ req[r].welcome.success
    /\ req[r].welcome.messageId = "m2"
    /\ \E u \in rows : /\ u.email_sent
                       /\ u.email_message_id = "m2"
                       /\ \E n \in req[r].newUser : n.id = u.id

WelcomeFailed(r) ==
  /\ req[r].welcomeAttempts = 1
  /\ req[r].pc = "done"
  /\ req[r].welcome.threw \/ ~req[r].welcome.success

\* C5: when the welcome-email send failed (success = false, or an
\* exception) after the record was persisted, the request is still answered
\* with success and the projection of the created user, the record stays
\* in the store (unless an admin deletes it) and its email_sent stays false.
C5_WelcomeFailureIsNotFatal ==
  \A r \in Requests :
    WelcomeFailed(r)
    => /\ req[r].status = 200
       /\ req[r].error = NULL
       /\ \E n \in req[r].newUser :
            req[r].user =
              {[id |-> n.id, firstName |-> n.first_name,
                lastName |-> n.last_name, email |-> n.email,
                company |-> n.company, createdAt |-> n.created_at]}
       /\ \A n \in req[r].newUser : \A u \in rows :
            u.id = n.id => u.email_sent = FALSE
       /\ Repo \notin req[r].touched
          => \E n \in req[r].newUser : \E u \in rows : u.id = n.id

C5_Witness ==
  \E r \in Requests :
    /\ WelcomeFailed(r)
    /\ req[r].welcome.threw
    /\ req[r].status = 200
    /\ \E n \in req[r].newUser : \E u \in rows :
         u.id = n.id /\ ~u.email_sent

C2_EmailUniqueAndNormalized ==
  /\ \A u \in rows, v \in rows : u.email = v.email => u = v
  /\ \A u \in rows : u.email = LowerTrim(u.email)

C2_Witness ==
  /\ Cardinality(rows) = 2
  /\ last.op = "update"
  /\ last.err = "UNIQUE"

\* C7: every create(data) that succeeds returns a record whose email is
\* lowercase(trim(data.email)), and right after it getByEmail(e) returns
\* that record for every e that lowercases and trims to the same address.
C7_CreateThenGetByEmail ==
  [][\A userData \in CreateInputs :
       (RepoCreate(userData) /\ last'.ok)
       => /\ \E u \in last'.ret :
               /\ last'.ret = {u}
               /\ u.email = LowerTrim(userData.email)
               /\ u \in rows'
          /\ \A e \in EmailInputs :
               LowerTrim(e) = LowerTrim(userData.email)
               => GetUserByEmail(rows', e) = last'.ret]_vars

C7_Witness ==
  /\ last.op = "create"
  /\ last.ok
  /\ last.data.email = ePadded
  /\ GetUserByEmail(rows, eUpper) = last.ret
  /\ last.ret # {}

\* C8: update(id, {}) with no field supplied writes nothing: it returns what
\* getById(id) returns, and updated_at and every other field of every record
\* are the same after the call as before it.
C8_EmptyUpdateIsARead ==
  [][\A id \in Ids, userData \in {d \in UpdateInputs : DOMAIN d = {}} :
       RepoUpdate(id, userData)
       => /\ rows' = rows
          /\ last'.ret = {u \in rows : u.id = id}
          /\ last'.err = "NONE"]_vars

C8_Witness ==
  /\ last.op = "update"
  /\ DOMAIN last.data = {}
  /\ \E u \in last.ret : u \in rows /\ u.updated_at < now

\* the column of a field of the update payload
Column(f) ==
  CASE f = "firstName" -> "first_name"
    [] f = "lastName" -> "last_name"
    [] f = "email" -> "email"
    [] f = "company" -> "company"
    [] f = "phone" -> "phone"
    [] f = "message" -> "message"

PayloadFields == {"firstName", "lastName", "email", "company", "phone",
                  "message"}

\* the value a supplied field is stored as
StoredValue(userData, f) ==
  IF f = "email" THEN LowerTrim(userData[f]) ELSE userData[f]

\* the step sets exactly the fields S of record id from userData, refreshes
\* updated_at, and leaves everything else alone
SetsExactly(id, userData, S) ==
  \E old \in rows, new \in rows' :
    /\ old.id = id
    /\ new.id = id
    /\ rows' \ {new} = rows \ {old}
    /\ \A f \in S : new[Column(f)] = StoredValue(userData, f)
    /\ \A f \in PayloadFields \ S : new[Column(f)] = old[Column(f)]
    /\ new.updated_at = now
    /\ new.created_at = old.created_at
    /\ new.email_sent = old.email_sent
    /\ new.email_sent_at = old.email_sent_at
    /\ new.email_message_id = old.email_message_id
    /\ new.admin_notification_sent = old.admin_notification_sent
    /\ new.admin_notification_sent_at = old.admin_notification_sent_at
    /\ new.admin_notification_message_id = old.admin_notification_message_id
    /\ last'.ret = {new}

\* C9: update(id, partial) with at least one field supplied, when it
\* returns, has changed exactly the supplied fields and refreshed updated_at,
\* has kept id, created_at, the unsupplied fields and all other records, and
\* returns None and changes nothing when no record has that id.
C9_UpdateSetsSuppliedFields ==
  [][\A id \in Ids, userData \in UpdateInputs :
       (RepoUpdate(id, userData) /\ DOMAIN userData # {} /\ last'.err = "NONE")
       => IF \E u \in rows : u.id = id
          THEN SetsExactly(id, userData, DOMAIN userData)
          ELSE rows' = rows /\ last'.ret = {}]_vars

\* C10: delete(id) returns true iff a record with that id existed, and then
\* that record and no other is removed; on an id that is not in the store it
\* returns false without an error and leaves the store unchanged; a delete
\* of the same id right after it returns false.
C10_DeleteReportsRemoval ==
  [][\A id \in Ids :
       RepoDelete(id)
       => /\ last'.ok = (\E u \in rows : u.id = id)
          /\ rows' = {u \in rows : u.id # id}
          /\ last'.err = "NONE"
          /\ (~\E u \in rows : u.id = id) => rows' = rows
          /\ DeleteUser(rows', id).ret = FALSE
          /\ DeleteUser(rows', id).rows = rows']_vars

C10_Witness ==
  /\ last.op = "delete"
  /\ last.ok
  /\ rows # {}
  /\ ~\E u \in rows : u.id = last.id

(* ------------------------ notification flags -------------------------- *)
\* C11: in every step, whatever the operation (insert, update, delete, the
\* recording of a welcome or admin-notification status), a record that is
\* still in the store keeps email_sent = true and admin_notification_sent =
\* true once it has them: neither flag goes back to false.
C11_FlagsNeverReset ==
  [][\A u \in rows : \A v \in rows' :
       u.id = v.id
       => /\ u.email_sent => v.email_sent
          /\ u.admin_notification_sent => v.admin_notification_sent]_vars

C11_Witness ==
  /\ last.op = "update"
  /\ last.ok
  /\ \E u \in last.ret : /\ u \in rows
                         /\ u.email_sent
                         /\ u.admin_notification_sent
                         /\ u.email = eOther

(* --------------------------- EmailValidator --------------------------- *)
\* C12: for every combination of outcomes of the MX, A and AAAA lookups of
\* a domain, validateDomain returns isValid = true iff at least one of the
\* three kinds of record resolves to one or more records; with no MX record
\* and a resolvable A record the result is isValid = true, hasRecords =
\* true, mxRecords = [].
C12_ValidIffAnyRecord ==
  (val.pc = "done" /\ val.domain # EmptyString)
  => /\ val.result.isValid = (\E t \in LookupTypes : val.dns[t] = "records")
     /\ (val.dns["MX"] # "records" /\ val.dns["A"] = "records")
        => /\ val.result.isValid
           /\ val.result.details.hasRecords
           /\ val.result.details.mxRecords = <<>>

\* C13: validate(email) of an email that fails validateFormat returns
\* {isValid: false, error: 'Invalid email format'} without any DNS lookup,
\* and whenever a lookup has been made the email had passed the format
\* check.
C13_NoLookupBeforeFormatCheck ==
  /\ (val.pc # "idle" /\ ~EmailRegexTest(val.email))
     => /\ val.pc = "done"
        /\ val.lookups = <<>>
        /\ ~val.result.isValid
        /\ val.result.error = "Invalid email format"
  /\ val.lookups # <<>> => EmailRegexTest(val.email)

C13_Witness ==
  /\ val.pc = "done"
  /\ val.email = eNoAt
  /\ val.dns["MX"] = "records"
  /\ val.lookups = <<>>
  /\ val.result.error = "Invalid email format"

(* ----------------------- registration: validation --------------------- *)
\* a body in which a required field is missing or empty
LacksRequired(body) ==
  \E f \in {"firstName", "lastName", "email", "company", "phone"} :
    f \notin DOMAIN body \/ body[f] = <<>>

C15_AnyEmailAccepted ==
  (/\ req["r1"].pc = "done"
   /\ ~LacksRequired(req["r1"].body)
   /\ \A i \in 1..Len(req["r1"].body.email) : req["r1"].body.email[i] # "@"
   /\ req["r1"].fresh)
  => /\ req["r1"].newUser # {}
     /\ req["r1"].status = 200

(* --------------------------- contact handler -------------------------- *)
\* C16: in the contact handler sendMail is called only after validate of
\* the admin address returned isValid = true; when it returned isValid =
\* false the request ends with an error response and sendMail is never
\* called for it.
C16_NoDeliveryBeforeValidation ==
  /\ contact.sendAttempts > 0
     => /\ val.pc = "done"
        /\ val.email = adminEmail
        /\ val.result.isValid
  /\ (val.pc = "done" /\ ~val.result.isValid /\ contact.pc # "validating")
     => /\ contact.pc = "done"
        /\ contact.status = 400
        /\ ~contact.success
        /\ contact.sendAttempts = 0

C16_Witness ==
  /\ contact.pc = "done"
  /\ contact.status = 400
  /\ contact.sendAttempts = 0
  /\ val.pc = "done"
  /\ val.lookups = <<"MX", "A", "AAAA">>
  /\ ~val.result.isValid

\* C17: a failed send is mapped by its SMTP rejection to a distinct message:
\* an error message containing '550-5.1.1' to the 'does not exist' message,
\* one containing '451' or 'temporarily' to the 'temporarily unavailable'
\* message, and one matching no known pattern to the generic message.
C17_SmtpErrorsMapped ==
  (contact.pc = "done" /\ contact.sendAttempts = 1 /\ ~contact.success)
  => /\ Includes(contact.smtpError, p550511)
        => contact.error = "The recipient email address does not exist. Please contact support directly."
     /\ (/\ ~Includes(contact.smtpError, p550)
         /\ Includes(contact.smtpError, p451)
            \/ Includes(contact.smtpError, pTemporarily))
        => contact.error = "Email service is temporarily unavailable. Please try again in a few minutes."
     /\ (\A pat \in {p550, p451, pTemporarily, pInvalid, pUnreachable,
                     pConnection, pNetwork} :
           ~Includes(contact.smtpError, pat))
        => contact.error = "Failed to send message. Please try again later."

(* ------------------------------- queries ------------------------------ *)
\* term occurs in s as a substring, letters compared without regard to case
OccursIn(term, s) ==
  \E i \in 1..(Len(s) - Len(term) + 1) :
    \A k \in 1..Len(term) :
      ToLowerChar(s[i + k - 1]) = ToLowerChar(term[k])

IsDescending(q) ==
  \A i \in DOMAIN q, j \in DOMAIN q :
    i < j => q[i].created_at >= q[j].created_at

\* C18: on both backends search(term) returns exactly the records in which
\* term occurs, compared case-insensitively, as a substring of the first
\* name, last name, email or company, ordered by created_at descending.
C18_SearchIsCaseInsensitiveSubstring ==
  last.op = "search"
  => /\ {last.ret[i] : i \in DOMAIN last.ret}
          = {u \in rows : \/ OccursIn(last.data.term, u.first_name)
                          \/ OccursIn(last.data.term, u.last_name)
                          \/ OccursIn(last.data.term, u.email)
                          \/ OccursIn(last.data.term, u.company)}
     /\ IsDescending(last.ret)

\* C19: listAll(limit, offset) returns the records ordered by created_at
\* descending, without the first offset records and at most limit of them;
\* either may be omitted independently of the other (offset without limit,
\* a limit of 0), and with both omitted all records are returned.
C19_ListLimitOffset ==
  last.op = "list"
  => LET args == last.data.args
         skip == IF "offset" \in DOMAIN args THEN args.offset ELSE 0
         n == Cardinality(rows)
         left == IF n > skip THEN n - skip ELSE 0
         want == IF "limit" \in DOMAIN args /\ args.limit < left
                 THEN args.limit ELSE left
     IN /\ last.ok
        /\ \E q \in [1..n -> rows] :
             /\ \A i \in 1..n, j \in 1..n : q[i] = q[j] => i = j
             /\ IsDescending(q)
             /\ last.ret = SubSeq(q, skip + 1, skip + want)

(* --------------------------- error responses -------------------------- *)
\* C20: no error response of a handler carries the text of an internal
\* error: of two runs of a handler that differ only in the message of the
\* internal error, the responses are the same whenever they are error
\* responses (the manual-fallback response of the email-configuration route
\* is not an error response and is left out).
C20_ErrorTextNotReturned ==
  (/\ probe.handler # "none"
   /\ ~(probe.handler = "configure" /\ probe.response[1].status = 200)
   /\ \/ probe.response[1].status >= 400
      \/ probe.response[1].error = "error")
  => probe.response[1] = probe.response[2]

(* --------------------- empty strings in an update --------------------- *)
\* the fields of a payload that count as supplied: message whenever it is
\* present, every other field when it is a non-empty string
CountsAsSupplied(userData) ==
  {f \in DOMAIN userData : f = "message" \/ userData[f] # EmptyString}

\* C30: updateUser treats an empty-string firstName, lastName, email,
\* company or phone as not supplied: the field is not written, and if nothing
\* else is supplied nothing is written and updated_at is not refreshed; an
\* empty-string message counts as supplied: it is written and updated_at is
\* refreshed.
C30_EmptyStringOnlyCountsForMessage ==
  [][LET id == last'.id
         userData == last'.data
     IN (last'.op = "update" /\ RepoUpdate(id, userData)
         /\ last'.err = "NONE")
        => IF CountsAsSupplied(userData) = {}
           THEN rows' = rows /\ last'.ret = {u \in rows : u.id = id}
           ELSE IF \E u \in rows : u.id = id
           THEN SetsExactly(id, userData, CountsAsSupplied(userData))
           ELSE rows' = rows /\ last'.ret = {}]_vars

C30_Witness ==
  /\ last.op = "update"
  /\ DOMAIN last.data = {"message"}
  /\ last.data.message = EmptyString
  /\ \E u \in last.ret :
       /\ u \in rows
       /\ u.message = EmptyString
       /\ u.updated_at = now
       /\ u.created_at < now

(* ------------------- error responses and the store -------------------- *)
\* C29: a registration request that responds with an error status (400, 409
\* or 500) has created no record: whenever the insert of a request
\* succeeded, that request responds with success, also when the
\* registration-count lookup or an email step of the same request fails.
C29_ErrorResponseCreatedNoRecord ==
  \A r \in Requests :
    (req[r].pc = "done" /\ req[r].status \in {400, 409, 500})
    => req[r].newUser = {}

(* ----------------------- the gates of a request ----------------------- *)
\* the steps a request may take from one gate to the next
GateSteps ==
  {<<"idle", "checking">>, <<"idle", "done">>,
   <<"checking", "persisting">>, <<"checking", "done">>,
   <<"persisting", "welcome">>, <<"persisting", "done">>,
   <<"welcome", "admin">>, <<"admin", "done">>}

GateOrder(r) ==
  /\ req'[r].pc # req[r].pc => <<req[r].pc, req'[r].pc>> \in GateSteps
  \* the duplicate lookup starts only for a body that passed validation
  /\ (req[r].pc = "idle" /\ req'[r].pc = "checking")
     => ~LacksRequired(req'[r].body) /\ EmailRegexTest(req'[r].body.email)
  \* the insert starts only after a lookup that found no record
  /\ (req[r].pc = "checking" /\ req'[r].pc = "persisting")
     => ~\E u \in rows : u.email = LowerTrim(req[r].body.email)
  \* the record is created at the persisting gate and nowhere else
  /\ req'[r].newUser # req[r].newUser
     => req[r].pc = "persisting" /\ req'[r].newUser \subseteq rows'
  /\ r \in req'[r].touched => req'[r].newUser # {}
  \* no email before the record is persisted
  /\ (req'[r].welcomeAttempts > 0 \/ req'[r].adminAttempts > 0)
     => req'[r].newUser # {}
  /\ req'[r].adminAttempts > 0 => req'[r].welcomeAttempts > 0
  \* a request turned away at a gate takes none of the later steps
  /\ req'[r].status \in {400, 409}
     => /\ req'[r].newUser = {}
        /\ r \notin req'[r].touched
        /\ req'[r].welcomeAttempts = 0
        /\ req'[r].adminAttempts = 0
  /\ req'[r].status = 500
     => req'[r].welcomeAttempts = 0 /\ req'[r].adminAttempts = 0
  /\ req'[r].status = 200
     => req'[r].welcomeAttempts = 1 /\ req'[r].adminAttempts = 1
  \* one response, at the end
  /\ req'[r].pc = "done" <=> req'[r].status \in {200, 400, 409, 500}
  /\ req'[r].pc # "done" => req'[r].status = 0
  /\ req[r].pc = "done"
     => /\ req'[r].pc = "done"
        /\ req'[r].status = req[r].status
        /\ req'[r].error = req[r].error
        /\ req'[r].user = req[r].user

\* C26: every registration request passes its gates in the order
\* validating, checking-duplicate, persisting, notifying, responding: no
\* store write happens before validation and the duplicate lookup have
\* passed, no email is sent before the record is persisted, a request
\* rejected at a gate performs none of the later steps, and every request
\* that was received ends with one response that never changes.
C26_GatesInOrder ==
  /\ [][\A r \in Requests : GateOrder(r)]_vars
  /\ \A r \in Requests : (req[r].pc # "idle") ~> (req[r].pc = "done")

C26_Witness ==
  /\ req["r1"].pc = "done"
  /\ req["r1"].status = 200
  /\ req["r2"].pc = "done"
  /\ req["r2"].status = 409
  /\ req["r2"].after = {}

(* ------------------------- initialization: retry ---------------------- *)
\* the kinds of fault that are connection-class
ConnectionClass == {"refused", "dns", "timeout", "tls", "reset"}

InFlight(d) == {l \in 1..MaxLoops : d.loops[l].pc \in {"test", "schema", "wait"}}

\* C22: during store initialization a failure that is not connection-class,
\* raised by the connection test or by schema setup, is propagated to the
\* caller after that single attempt: the loop rejects with it in the step
\* in which it is raised, with no wait and no further attempt.
C22_OtherFailuresNotRetried ==
  [][\A l \in 1..MaxLoops,
        outcome \in {f \in {Unexpected} \cup Faults :
                       f.class \notin ConnectionClass},
        jitter \in Jitters :
       (TestSettles(l, outcome, jitter) \/ SchemaSettles(l, outcome, jitter))
       => /\ db'.loops[l].pc = "rejected"
          /\ db'.initializationPromise = 0]_vars

\* C23: initializeDatabaseWithRetry terminates for every pattern of attempt
\* outcomes: it makes at most maxRetries attempts (10 by default, 15 for a
\* render.com connection string), stops at the first successful attempt,
\* and when the last attempt fails it rejects with that attempt's error in
\* the step of the failure, without a further wait.
C23_RetryLoopTerminates ==
  /\ [][\A l \in 1..MaxLoops :
          /\ \A render \in BOOLEAN :
               (TimerFires(render) /\ db.loops[l].pc = "none"
                /\ db'.loops[l].pc # "none")
               => /\ db'.loops[l].attempt = 1
                  /\ db'.loops[l].finalMaxRetries = IF render THEN 15 ELSE 10
          /\ l \in InFlight(db')
             => /\ db'.loops[l].attempt >= 1
                /\ db'.loops[l].attempt <= db'.loops[l].finalMaxRetries
          /\ db'.loops[l].attempt # db.loops[l].attempt
             => \/ db.loops[l].pc = "wait"
                   /\ db'.loops[l].attempt = db.loops[l].attempt + 1
                \/ l \notin InFlight(db) \/ l \notin InFlight(db')
          /\ \A jitter \in Jitters :
               SchemaSettles(l, Ok, jitter)
               => db'.loops[l].pc = "resolved" /\ db'.dbInitialized
          /\ db.loops[l].pc \in {"resolved", "rejected"}
             => db'.loops[l] = db.loops[l]
          /\ \A f \in Faults, jitter \in Jitters :
               (db.loops[l].attempt = db.loops[l].finalMaxRetries)
               => /\ TestSettles(l, f, jitter)
                     => /\ db'.loops[l].pc = "rejected"
                        /\ db'.loops[l].error.message
                             = mTestFailed \o f.error.message
                  /\ SchemaSettles(l, f, jitter)
                     => /\ db'.loops[l].pc = "rejected"
                        /\ db'.loops[l].error = f.error]_vars
  /\ \A l \in 1..MaxLoops :
       (l \in InFlight(db)) ~> (db.loops[l].pc \in {"resolved", "rejected"})

C23_Witness ==
  \E l \in 1..MaxLoops :
    /\ db.loops[l].pc = "test"
    /\ db.loops[l].attempt = 15
    /\ db.loops[l].finalMaxRetries = 15

\* x * 1.5^(k - 1) = v
RECURSIVE TimesPowerIs(_, _, _)
TimesPowerIs(x, k, v) ==
  IF k = 1 THEN x = v
  ELSE IF x > v THEN FALSE
  ELSE TimesPowerIs(3 * x, k - 1, 2 * v)

\* x * 1.5^(k - 1) >= v
RECURSIVE TimesPowerReaches(_, _, _)
TimesPowerReaches(x, k, v) ==
  IF x >= v THEN TRUE
  ELSE IF k = 1 THEN FALSE
  ELSE TimesPowerReaches(3 * x, k - 1, 2 * v)

\* C24: after failed attempt k, 1 <= k < maxRetries, the wait before the
\* next attempt is min(baseDelay * 1.5^(k-1) + jitter, 30000) ms with
\* 0 <= jitter < 1000 and baseDelay 2000 (3000 for render.com): it never
\* exceeds 30000 ms and, the jitter left aside, does not decrease from one
\* attempt to the next. (Delays are in eighths of a millisecond.)
C24_BackoffDelay ==
  \A l \in 1..MaxLoops :
    db.loops[l].pc = "wait"
    => LET lp == db.loops[l]
           k == lp.attempt
           cap == 30000 * 8
       IN /\ 1 <= k /\ k < lp.finalMaxRetries
          /\ lp.baseDelay = IF lp.finalMaxRetries = 15 THEN 3000 ELSE 2000
          /\ 0 <= lp.jitter /\ lp.jitter < 1000 * 8
          /\ lp.delayMs <= cap
          /\ IF lp.delayMs < cap
             THEN TimesPowerIs(lp.baseDelay * 8, k, lp.delayMs - lp.jitter)
             ELSE TimesPowerReaches(lp.baseDelay * 8, k, cap - lp.jitter)
          /\ k > 1
             => DelayMs(lp.baseDelay, k, 0) >= DelayMs(lp.baseDelay, k - 1, 0)

C24_Witness ==
  \E l \in 1..MaxLoops :
    /\ db.loops[l].pc = "wait"
    /\ db.loops[l].attempt = 7
    /\ db.loops[l].baseDelay = 3000
    /\ db.loops[l].delayMs = 30000 * 8
    /\ db.loops[l].jitter > 0

(* ---------------------- initialization: sharing ----------------------- *)
\* C21: of the callers of initializeDatabaseWithRetry that overlap while the
\* store is not initialized (the timer of getDatabase, the ensureInitialized
\* calls of createUser) at most one loop is in flight at any time, it is the
\* one initializationPromise stands for, every caller arriving during it
\* receives its promise and starts nothing, and schema setup is never run by
\* two loops at once.
C21_SingleLoopInFlight ==
  [][/\ Cardinality(InFlight(db')) <= 1
     /\ \A l \in InFlight(db') : db'.initializationPromise = l
     /\ Cardinality({l \in 1..MaxLoops : db'.loops[l].pc = "schema"}) <= 1
     /\ \A o \in Ops :
          (CreateUserCall(o, FALSE) /\ InFlight(db) # {})
          => /\ db'.ops[o].pc = "ensure"
             /\ db'.ops[o].awaiting \in InFlight(db)
             /\ db'.started = db.started
             /\ db'.loops = db.loops
     /\ (TimerFires(FALSE) /\ InFlight(db) # {})
        => /\ db'.lastCall.caller = "timer"
           /\ db'.lastCall.got \in InFlight(db)
           /\ db'.started = db.started
           /\ db'.loops = db.loops]_vars

C21_Witness ==
  \E l \in 1..MaxLoops :
    /\ db.loops[l].pc = "schema"
    /\ \A o \in Ops : db.ops[o].pc = "ensure" /\ db.ops[o].awaiting = l
    /\ db.lastCall = [caller |-> "timer", got |-> l, handle |-> 0]

\* C25: getDatabase calls, those made by testDatabaseConnection and
\* initializeDatabase while initialization runs included, return the one
\* pool there is until closeDatabase has cleared it: a pool is created only
\* when there is none, one at a time, and creating it schedules the delayed
\* initialization exactly once.
C25_OnePoolBetweenCloses ==
  [][/\ db.pool # 0
        => /\ db'.pool \in {db.pool, 0}
           /\ db'.created = db.created
           /\ db'.scheduled = db.scheduled
           /\ db'.pool = 0 => db.closing # 0 /\ db'.closing = 0
     /\ db.pool = 0 /\ db'.pool # 0
        => /\ db'.created = db.created + 1
           /\ db'.pool = db'.created
           /\ db'.scheduled = db.scheduled + 1
           /\ db'.timers = db.timers + 1
              \/ (db'.timers = db.timers /\ db'.lastCall.caller = "timer")
     /\ db'.pool = db.pool
        => db'.created = db.created /\ db'.scheduled = db.scheduled
     /\ GetDatabaseCall
        => /\ db'.lastCall.handle = db'.pool
           /\ db'.pool # 0
           /\ db.pool # 0 => db'.lastCall.handle = db.pool]_vars

C25_Witness ==
  /\ db.created = 2
  /\ db.pool = 2
  /\ db.scheduled = 2
  /\ db.lastCall.caller = "getDatabase"
  /\ db.lastCall.handle = 2
  /\ \E l \in 1..MaxLoops : db.loops[l].pc = "schema" /\ db.loops[l].attempt = 2

\* C27: when store initialization has failed, createUser still sends its
\* INSERT, once: the failure of the initialization is swallowed and the
\* caller receives what the INSERT gives, its failure included; no INSERT is
\* sent a second time.
C27_InsertAttemptedOnce ==
  [][\A o \in Ops :
       /\ db'.ops[o].inserts <= 1
       /\ (db.ops[o].pc = "ensure" /\ db'.ops[o].pc # "ensure")
          => /\ db'.ops[o].pc = "insert"
             /\ db'.ops[o].inserts = 1
             /\ db'.ops[o].result = "NULL"
             /\ db'.ops[o].initFailed
                  = (db.loops[db.ops[o].awaiting].pc = "rejected")
       /\ db'.ops[o].pc = "insert" => db'.ops[o].inserts = 1
       /\ \A outcome \in InsertOutcomes :
            InsertSettles(o, outcome)
            => /\ db'.ops[o].pc = "done"
               /\ db'.ops[o].result = outcome
               /\ db'.ops[o].inserts = 1
       /\ db.ops[o].pc = "done" => db'.ops[o] = db.ops[o]]_vars

C27_Witness ==
  /\ db.ops["o1"].pc = "done"
  /\ db.ops["o1"].initFailed
  /\ db.ops["o1"].inserts = 1
  /\ db.ops["o1"].result = "relation does not exist"

\* C28: when an initialization loop ends in failure initializationPromise
\* is null again and dbInitialized stays false, so that the next call of
\* initializeDatabaseWithRetry starts a fresh loop; once dbInitialized is
\* true it never becomes false again, closeDatabase included, and every
\* later call returns at once and starts nothing.
C28_InitializedForGood ==
  [][/\ db.dbInitialized => db'.dbInitialized
     /\ \A l \in 1..MaxLoops :
          (l \in InFlight(db) /\ db'.loops[l].pc = "rejected")
          => db'.initializationPromise = 0 /\ ~db'.dbInitialized
     /\ \A o \in Ops :
          CreateUserCall(o, FALSE)
          => /\ (~db.dbInitialized /\ db.initializationPromise = 0)
                => /\ db'.started = db.started + 1
                   /\ db'.initializationPromise = db'.started
                   /\ db'.loops[db'.started].pc = "test"
                   /\ db'.loops[db'.started].attempt = 1
                   /\ db'.ops[o].awaiting = db'.started
             /\ db.dbInitialized
                => /\ db'.loops = db.loops
                   /\ db'.started = db.started
                   /\ db'.pool = db.pool
                   /\ db'.lastCall.got = 0
     /\ TimerFires(FALSE)
        => /\ (~db.dbInitialized /\ db.initializationPromise = 0)
              => /\ db'.started = db.started + 1
                 /\ db'.initializationPromise = db'.started
                 /\ db'.loops[db'.started].pc = "test"
                 /\ db'.loops[db'.started].attempt = 1
           /\ db.dbInitialized
              => /\ db'.loops = db.loops
                 /\ db'.started = db.started
                 /\ db'.pool = db.pool
                 /\ db'.lastCall.got = 0]_vars

C28_Witness ==
  /\ db.loops[1].pc = "rejected"
  /\ db.loops[2].pc = "resolved"
  /\ db.dbInitialized
  /\ db.created = 2
  /\ db.pool = 0
  /\ db.lastCall = [caller |-> "timer", got |-> 0, handle |-> 0]

====
